---- MODULE Spec2Model ----
(***************************************************************************)
(* Model of src/src/resizer.go: the command-line image resizer.            *)
(*                                                                         *)
(* main parses the flags, collects the image paths of a directory tree,    *)
(* and runs two goroutines joined by the unbuffered channel `resized`:     *)
(* Resize (open, decode, compute the new size, send) and HandleResized     *)
(* (create the save directory, receive, create the output file, encode).   *)
(*                                                                         *)
(* Strings are sequences of one-character strings, so that filepath.Ext,   *)
(* filepath.Split, filepath.Join and fmt.Sprint are computed, not assumed. *)
(***************************************************************************)
EXTENDS Integers, Sequences, FiniteSets, TLC

VARIABLES
  args,      \* the command line: [r, d, sc, pGiven, p]
  world,     \* the directory tree read by ioutil.ReadDir and the image sizes
  dirs,      \* the directories that exist
  flags,     \* main's recFlag, pathFlag, scaleFlag, savePath
  files,     \* main's files slice
  reads,     \* the directories ioutil.ReadDir was called on
  mainPc,    \* main's position
  wg,        \* the sync.WaitGroup counter
  logDone,   \* the N of "Done. Resized N img.", -1 while not logged
  rPc,       \* Resize's position
  rI,        \* Resize's loop index (1-based position in files)
  rArgs,     \* Resize's parameters [files, scale]
  rImg,      \* Resize's resizedImg variable
  rHandles,  \* input files opened by Resize and not closed
  opened,    \* every os.Open attempt of Resize: [path, ok]
  hPc,       \* HandleResized's position
  hI,        \* HandleResized's loop counter i
  hArgs,     \* HandleResized's parameters [savedir, n]
  hRec,      \* HandleResized's resizedImg variable
  hOut,      \* HandleResized's out variable (path of the file created)
  hHandles,  \* output files created by HandleResized and not closed
  mkdirs,    \* every os.Mkdir attempt: [path, ok]
  creates,   \* every os.Create attempt: [path, rec, ok, dirExisted]
  encodes,   \* every jpeg.Encode / png.Encode call: [path, src, dec, fmt, ok]
  sent,      \* the records sent on the channel, in order
  received,  \* the records received from the channel, in order
  failed,    \* the operations that failed so far
  exited,    \* the process has ended through os.Exit(1)
  calc       \* the scale-calculator harness: [pc, w, h, sc, nw, nh]

vars ==
  << args, world, dirs, flags, files, reads, mainPc, wg, logDone,
     rPc, rI, rArgs, rImg, rHandles, opened,
     hPc, hI, hArgs, hRec, hOut, hHandles, mkdirs, creates, encodes,
     sent, received, failed, exited, calc >>

mainVars ==
  << flags, files, reads, mainPc, wg, logDone >>

resizeVars ==
  << rPc, rI, rArgs, rImg, rHandles, opened >>

handleVars ==
  << hPc, hI, hArgs, hRec, hOut, hHandles, mkdirs, creates, encodes >>

envVars ==
  << args, world, calc >>

----------------------------------------------------------------------------
(* Bounds of the model.                                                    *)

\* The -sc values tried are -MaxScale .. MaxScale.
MaxScale ==
  2

\* The scale calculator is applied to every dimension 0 .. MaxDim
\* (and to the dimensions of the images of the tree).
MaxDim ==
  12

\* The scale calculator is applied with every non-zero scale
\* -MaxCalcScale .. MaxCalcScale.
MaxCalcScale ==
  4

----------------------------------------------------------------------------
(* Integers as Go computes them.                                           *)

Abs(x) ==
  IF x < 0 THEN -x ELSE x

\* Go's integer division truncates toward zero.
GoDiv(a, b) ==
  IF (a < 0) = (b < 0) THEN Abs(a) \div Abs(b) ELSE -(Abs(a) \div Abs(b))

\* The width of the unsigned integers.  Go's uint has 64 bits; TLC's
\* integers have 32, so the conversion wraps at 2^30 here.
UintModulus ==
  2^30

\* uint(x): the value modulo the width.
Uint(x) ==
  x % UintModulus

GetNewWidth_Multiply(w, sc) ==
  IF sc < 0 THEN Uint(GoDiv(-w, sc)) ELSE Uint(w * sc)

GetNewWidth(w, sc) ==
  IF sc < 0 THEN Uint(GoDiv(-w, sc)) ELSE Uint(w + GoDiv(w, sc))

GetNewHeight_NoNegate(h, sc) ==
  IF sc < 0 THEN Uint(GoDiv(h, sc)) ELSE Uint(h + GoDiv(h, sc))

GetNewHeight_Multiply(h, sc) ==
  IF sc < 0 THEN Uint(GoDiv(-h, sc)) ELSE Uint(h * sc)

GetNewHeight(h, sc) ==
  IF sc < 0 THEN Uint(GoDiv(-h, sc)) ELSE Uint(h + GoDiv(h, sc))

----------------------------------------------------------------------------
(* Strings and paths.                                                      *)

Digits ==
  << "0", "1", "2", "3", "4", "5", "6", "7", "8", "9" >>

\* fmt.Sprint of an unsigned integer: its decimal digits.
RECURSIVE Sprint(_)
Sprint(n) ==
  IF n < 10 THEN << Digits[n + 1] >>
  ELSE Sprint(n \div 10) \o << Digits[(n % 10) + 1] >>

\* The last position <= i of s holding c, 0 when there is none.
RECURSIVE LastIndex(_, _, _)
LastIndex(s, c, i) ==
  IF i = 0 THEN 0
  ELSE IF s[i] = c THEN i
  ELSE LastIndex(s, c, i - 1)

\* filepath.Ext: the suffix beginning at the final dot of the final element.
RECURSIVE ExtFrom(_, _)
ExtFrom(path, i) ==
  IF i = 0 \/ path[i] = "/" THEN << >>
  ELSE IF path[i] = "." THEN SubSeq(path, i, Len(path))
  ELSE ExtFrom(path, i - 1)

Ext(path) ==
  ExtFrom(path, Len(path))

\* filepath.Split: the file part, what follows the final separator.
SplitFile(path) ==
  SubSeq(path, LastIndex(path, "/", Len(path)) + 1, Len(path))

\* The non-empty elements of a path.
RECURSIVE Elements(_, _, _, _)
Elements(p, i, cur, acc) ==
  IF i > Len(p) THEN (IF cur = << >> THEN acc ELSE Append(acc, cur))
  ELSE IF p[i] = "/"
       THEN Elements(p, i + 1, << >>, IF cur = << >> THEN acc ELSE Append(acc, cur))
       ELSE Elements(p, i + 1, Append(cur, p[i]), acc)

\* filepath.Clean on the elements: "." dropped, ".." removes the element before.
RECURSIVE CleanElements(_, _, _, _)
CleanElements(els, i, rooted, out) ==
  IF i > Len(els) THEN out
  ELSE IF els[i] = << "." >> THEN CleanElements(els, i + 1, rooted, out)
  ELSE IF els[i] = << ".", "." >>
       THEN IF out # << >> /\ out[Len(out)] # << ".", "." >>
            THEN CleanElements(els, i + 1, rooted, SubSeq(out, 1, Len(out) - 1))
            ELSE IF rooted THEN CleanElements(els, i + 1, rooted, out)
            ELSE CleanElements(els, i + 1, rooted, Append(out, els[i]))
       ELSE CleanElements(els, i + 1, rooted, Append(out, els[i]))

RECURSIVE Glue(_, _)
Glue(els, i) ==
  IF i > Len(els) THEN << >>
  ELSE IF i = Len(els) THEN els[i]
  ELSE els[i] \o << "/" >> \o Glue(els, i + 1)

\* filepath.Clean.  Each stage works on the value of the one before.
Clean(p) ==
  LET rooted == p # << >> /\ p[1] = "/"
      elements == { Elements(q, 1, << >>, << >>) : q \in { p } }
      cleaned == { CleanElements(els, 1, rooted, << >>) : els \in elements }
      bodies == { Glue(els, 1) : els \in cleaned }
      body == CHOOSE b \in bodies : TRUE
      whole == IF rooted THEN << "/" >> \o body ELSE body
  IN IF whole = << >> THEN << "." >> ELSE whole

\* filepath.Join of two elements: empty elements are ignored, the rest is
\* joined by the separator and cleaned; all empty gives the empty string.
Join(a, b) ==
  IF a = << >> /\ b = << >> THEN << >>
  ELSE IF a = << >> THEN Clean(b)
  ELSE IF b = << >> THEN Clean(a)
  ELSE Clean(a \o << "/" >> \o b)

\* The directory a path's file is created in.
Parent(path) ==
  LET k == LastIndex(path, "/", Len(path))
  IN IF k = 0 THEN << "." >>
     ELSE IF k = 1 THEN << "/" >>
     ELSE SubSeq(path, 1, k - 1)

\* StringInSlice: the slice contains the string.
RECURSIVE StringInSliceFrom(_, _, _)
StringInSliceFrom(s, list, i) ==
  IF i > Len(list) THEN FALSE
  ELSE IF list[i] = s THEN TRUE
  ELSE StringInSliceFrom(s, list, i + 1)

StringInSlice(s, list) ==
  StringInSliceFrom(s, list, 1)

ExtJpg ==
  << ".", "j", "p", "g" >>

ExtJpeg ==
  << ".", "j", "p", "e", "g" >>

ExtPng ==
  << ".", "p", "n", "g" >>

providedExt_NoJpeg ==
  << ExtJpg, ExtPng >>

providedExt_WithTxt ==
  << ExtJpg, ExtJpeg, ExtPng, << ".", "t", "x", "t" >> >>

\* GetImageFiles' list of provided image extensions.
providedExt ==
  << ExtJpg, ExtJpeg, ExtPng >>

----------------------------------------------------------------------------
(* The file system the program runs on.                                    *)

SrcDir ==
  << "s" >>

SubDir ==
  << "s", "/", "d" >>

OutDir ==
  << "o" >>

DeepOutDir ==
  << "o", "/", "p" >>

CurDir ==
  << "." >>

File(name) ==
  [name |-> name, isDir |-> FALSE]

Dir(name) ==
  [name |-> name, isDir |-> TRUE]

\* A tree with an image of the same name and size at two depths, a file
\* that is no image, and a sub-directory.  ioutil.ReadDir lists by name.
PhotoWorld ==
  [ listing |->
      (SrcDir :> << Dir(<< "d" >>),
                    File(<< "i", ".", "p", "n", "g" >>),
                    File(<< "n", ".", "t", "x", "t" >>),
                    File(<< "p", ".", "j", "p", "g" >>) >>)
      @@ (SubDir :> << File(<< "p", ".", "j", "p", "g" >>) >>),
    size |->
      (<< "s", "/", "i", ".", "p", "n", "g" >> :> << 100, 100 >>)
      @@ (<< "s", "/", "p", ".", "j", "p", "g" >> :> << 800, 600 >>)
      @@ (<< "s", "/", "d", "/", "p", ".", "j", "p", "g" >> :> << 800, 600 >>) ]

\* A tree with no image in it.
EmptyWorld ==
  [ listing |-> (SrcDir :> << File(<< "n", ".", "t", "x", "t" >>) >>),
    size |-> << >> ]

\* A tree with one image of a single pixel.
TinyWorld ==
  [ listing |-> (SrcDir :> << File(<< "t", ".", "p", "n", "g" >>) >>),
    size |-> (<< "s", "/", "t", ".", "p", "n", "g" >> :> << 1, 1 >>) ]

Worlds ==
  { PhotoWorld, EmptyWorld, TinyWorld }

\* The directories of a tree.
WorldDirs(w) ==
  { CurDir } \cup DOMAIN w.listing

----------------------------------------------------------------------------
(* GetImageFiles.                                                          *)

\* The loop of GetImageFiles over the entries k.. of dirname, from the
\* result so far; gives the result and the directories read.
RECURSIVE GetImageFilesFrom(_, _, _, _, _)
GetImageFilesFrom(listing, dirname, recurs, k, acc) ==
  IF k > Len(listing[dirname]) THEN acc
  ELSE
    LET file == listing[dirname][k]
        absPath == Join(dirname, file.name)
        ext == Ext(absPath)
        next ==
          IF recurs
          THEN IF file.isDir
               THEN GetImageFilesFrom(listing, absPath, recurs, 1,
                      [acc EXCEPT !.reads = Append(@, absPath)])
               ELSE IF StringInSlice(ext, providedExt)
                    THEN [acc EXCEPT !.result = Append(@, absPath)]
                    ELSE acc
          ELSE IF ~file.isDir /\ StringInSlice(ext, providedExt)
               THEN [acc EXCEPT !.result = Append(@, absPath)]
               ELSE acc
    IN GetImageFilesFrom(listing, dirname, recurs, k + 1, next)

GetImageFiles(listing, dirname, recurs, result) ==
  GetImageFilesFrom(listing, dirname, recurs, 1,
                    [result |-> result, reads |-> << dirname >>])

----------------------------------------------------------------------------
(* Command line.                                                           *)

\* The default of -d.
DDefault ==
  << >>

\* The default of -p: *imgPath as it is when the -p flag is defined, which
\* is before flag.Parse, so it is the default of -d.
PDefault(a) ==
  DDefault

ParseCommandLine(a) ==
  [ recFlag |-> a.r,
    pathFlag |-> a.d,
    scaleFlag |-> a.sc,
    savePath |-> IF a.pGiven THEN a.p ELSE PDefault(a) ]

ConfigError_PathOnly(f) ==
  f.pathFlag = << >>

\* main's two checks of the flags.
ConfigError(f) ==
  f.pathFlag = << >> \/ f.scaleFlag = 0

\* The command lines tried.
Scales ==
  (-MaxScale) .. MaxScale

ArgsSet ==
  [ r : BOOLEAN, d : { DDefault, SrcDir }, sc : Scales,
    pGiven : { TRUE }, p : { << >>, SrcDir, OutDir, DeepOutDir } ]
  \cup
  [ r : BOOLEAN, d : { DDefault, SrcDir }, sc : Scales,
    pGiven : { FALSE }, p : { << >> } ]

----------------------------------------------------------------------------
(* Records.                                                                *)

NoData ==
  [of |-> << >>, dec |-> "none"]

\* The zero value of ResizedImage.
ZeroImage ==
  [Filename |-> << >>, Ext |-> << >>, Width |-> 0, Height |-> 0, Data |-> NoData]

NoFlags ==
  [recFlag |-> FALSE, pathFlag |-> << >>, scaleFlag |-> 0, savePath |-> << >>]

NoResizeArgs ==
  [files |-> << >>, scale |-> 0]

NoHandleArgs ==
  [savedir |-> << >>, n |-> 0]

CalcOff ==
  [pc |-> "off", w |-> 0, h |-> 0, sc |-> 0, nw |-> 0, nh |-> 0]

----------------------------------------------------------------------------
(* The initial state: the process has started, nothing has run.            *)

ProgramStart ==
  /\ flags = NoFlags
  /\ files = << >>
  /\ reads = << >>
  /\ mainPc = "parse"
  /\ wg = 0
  /\ logDone = -1
  /\ rPc = "idle"
  /\ rI = 0
  /\ rArgs = NoResizeArgs
  /\ rImg = ZeroImage
  /\ rHandles = << >>
  /\ opened = << >>
  /\ hPc = "idle"
  /\ hI = 0
  /\ hArgs = NoHandleArgs
  /\ hRec = ZeroImage
  /\ hOut = << >>
  /\ hHandles = << >>
  /\ mkdirs = << >>
  /\ creates = << >>
  /\ encodes = << >>
  /\ sent = << >>
  /\ received = << >>
  /\ failed = { }
  /\ exited = FALSE

Init ==
  /\ args \in ArgsSet
  /\ world \in Worlds
  /\ \E pre \in SUBSET { OutDir } : dirs = WorldDirs(world) \cup pre
  /\ calc = CalcOff
  /\ ProgramStart

----------------------------------------------------------------------------
(* log.Fatalf and the WaitGroup.                                           *)

Fatalf_LogOnly ==
  "returned"

\* Where log.Fatalf leaves its caller: the message is written and os.Exit(1)
\* is about to end the process (OsExit); the other goroutines still run
\* until it does.
Fatalf ==
  "fatal"

Running ==
  ~exited

WgAdd_Forgotten(c) ==
  c

\* wg.Add(1)
WgAdd(c) ==
  c + 1

\* wg.Done()
WgDone(c) ==
  c - 1

----------------------------------------------------------------------------
(* main.                                                                   *)

\* main: ParseCommandLine and the two checks of the flags.
MainParse ==
  /\ Running
  /\ mainPc = "parse"
  /\ flags' = ParseCommandLine(args)
  /\ IF ConfigError(flags')
     THEN /\ mainPc' = Fatalf
          /\ failed' = failed \cup { "config" }
     ELSE /\ mainPc' = "collect"
          /\ UNCHANGED failed
  /\ UNCHANGED << files, reads, wg, logDone, dirs, exited >>
  /\ UNCHANGED << resizeVars, handleVars, envVars, sent, received >>

\* main: GetImageFiles(pathFlag, recFlag, &files); ioutil.ReadDir may fail,
\* and GetImageFiles then ends the process.
MainCollect ==
  /\ Running
  /\ mainPc = "collect"
  /\ \E ok \in BOOLEAN :
       IF ok
       THEN LET got == GetImageFiles(world.listing, flags.pathFlag,
                                     flags.recFlag, files)
            IN /\ files' = got.result
               /\ reads' = got.reads
               /\ mainPc' = "add1"
               /\ UNCHANGED failed
       ELSE /\ reads' = << flags.pathFlag >>
            /\ mainPc' = Fatalf
            /\ failed' = failed \cup { "readdir" }
            /\ UNCHANGED files
  /\ UNCHANGED << flags, wg, logDone, dirs, exited >>
  /\ UNCHANGED << resizeVars, handleVars, envVars, sent, received >>

\* main: the first wg.Add(1).
MainAdd1 ==
  /\ Running
  /\ mainPc = "add1"
  /\ wg' = WgAdd(wg)
  /\ mainPc' = "goResize"
  /\ UNCHANGED << flags, files, reads, logDone, dirs, exited, failed >>
  /\ UNCHANGED << resizeVars, handleVars, envVars, sent, received >>

\* Where Resize stands with index i: opening files[i], or returning once
\* the range over files is exhausted.
ResizeAt(i, fs) ==
  IF i <= Len(fs) THEN "open" ELSE "ret"

\* main: go Resize(files, scaleFlag, &wg).
MainGoResize ==
  /\ Running
  /\ mainPc = "goResize"
  /\ rArgs' = [files |-> files, scale |-> flags.scaleFlag]
  /\ rI' = 1
  /\ rPc' = ResizeAt(1, files)
  /\ mainPc' = "add2"
  /\ UNCHANGED << flags, files, reads, wg, logDone, dirs, exited, failed >>
  /\ UNCHANGED << rImg, rHandles, opened >>
  /\ UNCHANGED << handleVars, envVars, sent, received >>

\* main: the second wg.Add(1).
MainAdd2 ==
  /\ Running
  /\ mainPc = "add2"
  /\ wg' = WgAdd(wg)
  /\ mainPc' = "goHandle"
  /\ UNCHANGED << flags, files, reads, logDone, dirs, exited, failed >>
  /\ UNCHANGED << resizeVars, handleVars, envVars, sent, received >>

HandleN_OneMore(fs) ==
  Len(fs) + 1

\* The n main passes to HandleResized: len(files).
HandleN(fs) ==
  Len(fs)

\* main: go HandleResized(savePath, len(files), &wg).
MainGoHandle ==
  /\ Running
  /\ mainPc = "goHandle"
  /\ hArgs' = [savedir |-> flags.savePath, n |-> HandleN(files)]
  /\ hI' = 0
  /\ hPc' = "stat"
  /\ mainPc' = "wait"
  /\ UNCHANGED << flags, files, reads, wg, logDone, dirs, exited, failed >>
  /\ UNCHANGED << hRec, hOut, hHandles, mkdirs, creates, encodes >>
  /\ UNCHANGED << resizeVars, envVars, sent, received >>

\* main: wg.Wait() returns when the counter is zero, and the summary is
\* logged.
MainWait ==
  /\ Running
  /\ mainPc = "wait"
  /\ wg = 0
  /\ logDone' = Len(files)
  /\ mainPc' = "done"
  /\ UNCHANGED << flags, files, reads, wg, dirs, exited, failed >>
  /\ UNCHANGED << resizeVars, handleVars, envVars, sent, received >>

----------------------------------------------------------------------------
(* Resize.                                                                 *)

IsJpeg(ext) ==
  ext = ExtJpeg \/ ext = ExtJpg

IsPng(ext) ==
  ext = ExtPng

\* The record Resize builds from a decoded image: the file name, its
\* extension, the new width and height, and the resampled image.
ResizedRecord(filename, ext, size, scale, dec) ==
  [ Filename |-> filename,
    Ext |-> ext,
    Width |-> GetNewWidth(size[1], scale),
    Height |-> GetNewHeight(size[2], scale),
    Data |-> [of |-> filename, dec |-> dec] ]

ResizeFile_Backwards(fs, i) ==
  fs[Len(fs) + 1 - i]

\* The filename of the range loop's i-th iteration.
ResizeFile(fs, i) ==
  fs[i]

\* Resize: os.Open(filename); a failure is fatal.
ResizeOpen ==
  /\ Running
  /\ rPc = "open"
  /\ LET filename == ResizeFile(rArgs.files, rI)
     IN \E ok \in BOOLEAN :
          /\ opened' = Append(opened, [path |-> filename, ok |-> ok])
          /\ IF ok
             THEN /\ rHandles' = Append(rHandles, filename)
                  /\ rPc' = "decode"
                  /\ UNCHANGED failed
             ELSE /\ rPc' = Fatalf
                  /\ failed' = failed \cup { "open" }
                  /\ UNCHANGED rHandles
  /\ UNCHANGED << rI, rArgs, rImg >>
  /\ UNCHANGED << mainVars, handleVars, envVars, dirs, exited, sent, received >>

\* Resize: the dispatch on the extension, the decoding (a failure is fatal),
\* the new size and the record.  A scale of zero would divide by zero, which
\* ends the process as well.  With neither extension resizedImg is left as
\* it was.
ResizeDecode ==
  /\ Running
  /\ rPc = "decode"
  /\ LET filename == ResizeFile(rArgs.files, rI)
         ext == Ext(filename)
         dec == IF IsJpeg(ext) THEN "jpeg" ELSE "png"
     IN IF IsJpeg(ext) \/ IsPng(ext)
        THEN \E ok \in BOOLEAN :
               IF ok /\ rArgs.scale # 0
               THEN /\ rImg' = ResizedRecord(filename, ext, world.size[filename],
                                             rArgs.scale, dec)
                    /\ rPc' = "send"
                    /\ UNCHANGED failed
               ELSE /\ rPc' = Fatalf
                    /\ failed' = failed \cup { IF ok THEN "panic" ELSE "decode" }
                    /\ UNCHANGED rImg
        ELSE /\ rPc' = "send"
             /\ UNCHANGED << rImg, failed >>
  /\ UNCHANGED << rI, rArgs, rHandles, opened >>
  /\ UNCHANGED << mainVars, handleVars, envVars, dirs, exited, sent, received >>

\* Resize returns: the deferred wg.Done and the deferred file.Close of every
\* file opened.
ResizeReturn ==
  /\ Running
  /\ rPc = "ret"
  /\ wg' = WgDone(wg)
  /\ rHandles' = << >>
  /\ rPc' = "returned"
  /\ UNCHANGED << rI, rArgs, rImg, opened >>
  /\ UNCHANGED << flags, files, reads, mainPc, logDone >>
  /\ UNCHANGED << handleVars, envVars, dirs, exited, failed, sent, received >>

----------------------------------------------------------------------------
(* The channel.                                                            *)

LoopCond_OneLess(i, n) ==
  i < n - 1

\* HandleResized's loop condition.
LoopCond(i, n) ==
  i < n

\* Where HandleResized stands with counter i: at the receive, or returning.
HandleAt(i, n) ==
  IF LoopCond(i, n) THEN "recv" ELSE "ret"

Handoff_SendOnly ==
  /\ Running
  /\ rPc = "send"
  /\ sent' = Append(sent, rImg)
  /\ rI' = rI + 1
  /\ rPc' = ResizeAt(rI + 1, rArgs.files)
  /\ UNCHANGED << rArgs, rImg, rHandles, opened, received >>
  /\ UNCHANGED << mainVars, handleVars, envVars, dirs, exited, failed >>

\* resized <- resizedImg meets resizedImg := <-resized: the channel has no
\* buffer, the send and the receive complete together.
Handoff ==
  /\ Running
  /\ rPc = "send"
  /\ hPc = "recv"
  /\ hRec' = rImg
  /\ sent' = Append(sent, rImg)
  /\ received' = Append(received, rImg)
  /\ rI' = rI + 1
  /\ rPc' = ResizeAt(rI + 1, rArgs.files)
  /\ hPc' = "create"
  /\ UNCHANGED << rArgs, rImg, rHandles, opened >>
  /\ UNCHANGED << hI, hArgs, hOut, hHandles, mkdirs, creates, encodes >>
  /\ UNCHANGED << mainVars, envVars, dirs, exited, failed >>

----------------------------------------------------------------------------
(* HandleResized.                                                          *)

\* os.Stat finds the path.
Exists(p, ds) ==
  p \in ds

\* os.Mkdir creates one directory: its parent must exist.
MkdirOk(p, ds) ==
  p # << >> /\ p \notin ds /\ Parent(p) \in ds

\* HandleResized: create savedir if os.Stat says it does not exist; the
\* result of os.Mkdir is dropped.
HandleStat ==
  /\ Running
  /\ hPc = "stat"
  /\ IF ~Exists(hArgs.savedir, dirs)
     THEN LET ok == MkdirOk(hArgs.savedir, dirs)
          IN /\ mkdirs' = Append(mkdirs, [path |-> hArgs.savedir, ok |-> ok])
             /\ dirs' = IF ok THEN dirs \cup { hArgs.savedir } ELSE dirs
             /\ failed' = IF ok THEN failed ELSE failed \cup { "mkdir" }
     ELSE UNCHANGED << mkdirs, dirs, failed >>
  /\ hPc' = HandleAt(hI, hArgs.n)
  /\ UNCHANGED << hI, hArgs, hRec, hOut, hHandles, creates, encodes >>
  /\ UNCHANGED << mainVars, resizeVars, envVars, exited, sent, received >>

OutputPath_NoSplit(savedir, rec) ==
  IF savedir = << >>
  THEN rec.Filename
  ELSE Join(savedir,
            Sprint(rec.Width) \o << "x" >> \o Sprint(rec.Height) \o << "_" >>
              \o rec.Filename)

\* The path HandleResized creates for a record.
OutputPath(savedir, rec) ==
  IF savedir = << >>
  THEN rec.Filename
  ELSE Join(savedir,
            Sprint(rec.Width) \o << "x" >> \o Sprint(rec.Height) \o << "_" >>
              \o SplitFile(rec.Filename))

\* HandleResized: os.Create; a failure is fatal.  The file can be created
\* only in a directory that exists.
HandleCreate ==
  /\ Running
  /\ hPc = "create"
  /\ LET path == OutputPath(hArgs.savedir, hRec)
     IN \E envOk \in BOOLEAN :
          LET ok == envOk /\ Parent(path) \in dirs
          IN /\ creates' = Append(creates,
                                  [ path |-> path, rec |-> hRec, ok |-> ok,
                                    dirExisted |-> Exists(hArgs.savedir, dirs) ])
             /\ IF ok
                THEN /\ hOut' = path
                     /\ hHandles' = Append(hHandles, path)
                     /\ hPc' = "encode"
                     /\ UNCHANGED failed
                ELSE /\ hPc' = Fatalf
                     /\ failed' = failed \cup { "create" }
                     /\ UNCHANGED << hOut, hHandles >>
  /\ UNCHANGED << hI, hArgs, hRec, mkdirs, encodes >>
  /\ UNCHANGED << mainVars, resizeVars, envVars, dirs, exited, sent, received >>

\* HandleResized: jpeg.Encode or png.Encode by the record's extension; what
\* the encoder returns is dropped.  Then i++ and the loop condition.
HandleEncode ==
  /\ Running
  /\ hPc = "encode"
  /\ IF IsJpeg(hRec.Ext) \/ IsPng(hRec.Ext)
     THEN \E ok \in BOOLEAN :
            /\ encodes' = Append(encodes,
                                 [ path |-> hOut, src |-> hRec.Data.of, ok |-> ok,
                                   dec |-> hRec.Data.dec,
                                   fmt |-> IF IsJpeg(hRec.Ext) THEN "jpeg" ELSE "png" ])
            /\ failed' = IF ok THEN failed ELSE failed \cup { "encode" }
     ELSE UNCHANGED << encodes, failed >>
  /\ hI' = hI + 1
  /\ hPc' = HandleAt(hI + 1, hArgs.n)
  /\ UNCHANGED << hArgs, hRec, hOut, hHandles, mkdirs, creates >>
  /\ UNCHANGED << mainVars, resizeVars, envVars, dirs, exited, sent, received >>

\* HandleResized returns: the deferred wg.Done and the deferred out.Close of
\* every file created.
HandleReturn ==
  /\ Running
  /\ hPc = "ret"
  /\ wg' = WgDone(wg)
  /\ hHandles' = << >>
  /\ hPc' = "returned"
  /\ UNCHANGED << hI, hArgs, hRec, hOut, mkdirs, creates, encodes >>
  /\ UNCHANGED << flags, files, reads, mainPc, logDone >>
  /\ UNCHANGED << resizeVars, envVars, dirs, exited, failed, sent, received >>

----------------------------------------------------------------------------
(* The end of the process.                                                 *)

\* os.Exit(1), the second half of log.Fatalf: every goroutine ends.
OsExit ==
  /\ Running
  /\ mainPc = "fatal" \/ rPc = "fatal" \/ hPc = "fatal"
  /\ exited' = TRUE
  /\ UNCHANGED << mainVars, resizeVars, handleVars, envVars >>
  /\ UNCHANGED << dirs, failed, sent, received >>

----------------------------------------------------------------------------
(* The program.                                                            *)

MainStep ==
  \/ MainParse
  \/ MainCollect
  \/ MainAdd1
  \/ MainGoResize
  \/ MainAdd2
  \/ MainGoHandle
  \/ MainWait

ResizeStep ==
  \/ ResizeOpen
  \/ ResizeDecode
  \/ ResizeReturn

HandleStep ==
  \/ HandleStat
  \/ HandleCreate
  \/ HandleEncode
  \/ HandleReturn

Next ==
  \/ MainStep
  \/ ResizeStep
  \/ HandleStep
  \/ Handoff
  \/ OsExit

Spec ==
  Init /\ [][Next]_vars

\* The Go scheduler runs a goroutine that can run, and os.Exit ends the
\* process once called: the program does not stop while a step is possible.
FairSpec ==
  Init /\ [][Next]_vars /\ WF_vars(Next)

----------------------------------------------------------------------------
(* The scale calculator on its own: GetNewWidth and GetNewHeight applied   *)
(* to every dimension and scale of a bounded range.                        *)

ImageDims ==
  { PhotoWorld.size[p][k] : p \in DOMAIN PhotoWorld.size, k \in 1 .. 2 }

CalcDims ==
  (0 .. MaxDim) \cup ImageDims \cup { 50 }

CalcScales ==
  ((-MaxCalcScale) .. MaxCalcScale) \ { 0 }

CalcInit ==
  /\ args = [r |-> FALSE, d |-> SrcDir, sc |-> 1, pGiven |-> FALSE, p |-> << >>]
  /\ world = PhotoWorld
  /\ dirs = WorldDirs(world)
  /\ \E w \in CalcDims, h \in CalcDims, sc \in CalcScales :
       calc = [pc |-> "in", w |-> w, h |-> h, sc |-> sc, nw |-> 0, nh |-> 0]
  /\ ProgramStart

\* width := GetNewWidth(img.Bounds().Max.X, scale) and
\* height := GetNewHeight(img.Bounds().Max.Y, scale)
CalcApply ==
  /\ calc.pc = "in"
  /\ calc' = [calc EXCEPT !.pc = "out",
                          !.nw = GetNewWidth(calc.w, calc.sc),
                          !.nh = GetNewHeight(calc.h, calc.sc)]
  /\ UNCHANGED << args, world, dirs, mainVars, resizeVars, handleVars >>
  /\ UNCHANGED << sent, received, failed, exited >>

CalcNext ==
  CalcApply

CalcSpec ==
  CalcInit /\ [][CalcNext]_vars

----------------------------------------------------------------------------
(* GetImageFiles on its own: applied to every tree of a bounded family,    *)
(* with and without recursion.                                             *)

DeepDir ==
  << "s", "/", "d", "/", "e", ".", "p", "n", "g" >>

\* What a directory of the family may hold, as ioutil.ReadDir lists it (by
\* name): images, a file with an extension in capitals, a file that is no
\* image, a file without extension, a sub-directory, and a sub-directory
\* named like an image.
RootEntries ==
  << File(<< "a", ".", "j", "p", "g" >>),
     File(<< "b", ".", "j", "p", "e", "g" >>),
     Dir(<< "d" >>),
     File(<< "n", ".", "t", "x", "t" >>),
     File(<< "q", ".", "J", "P", "G" >>) >>

SubEntries ==
  << File(<< "c", ".", "p", "n", "g" >>),
     Dir(<< "e", ".", "p", "n", "g" >>),
     File(<< "x" >>) >>

DeepEntries ==
  << File(<< "a", ".", "j", "p", "g" >>),
     File(<< "n", ".", "t", "x", "t" >>) >>

\* The positions of a listing, and the entries kept at the positions chosen.
Positions(entries) ==
  1 .. Len(entries)

RECURSIVE Kept(_, _, _)
Kept(entries, keep, k) ==
  IF k > Len(entries) THEN << >>
  ELSE IF k \in keep THEN << entries[k] >> \o Kept(entries, keep, k + 1)
  ELSE Kept(entries, keep, k + 1)

HasDir(entries) ==
  \E k \in 1 .. Len(entries) : entries[k].isDir

NoListing ==
  [p \in { } |-> << >>]

TreeOf(root, sub, deep) ==
  [ listing |->
      (SrcDir :> root)
      @@ (IF HasDir(root) THEN (SubDir :> sub) ELSE NoListing)
      @@ (IF HasDir(root) /\ HasDir(sub) THEN (DeepDir :> deep) ELSE NoListing),
    size |-> << >> ]

CollectWorlds ==
  { TreeOf(Kept(RootEntries, a, 1), Kept(SubEntries, b, 1), Kept(DeepEntries, c, 1)) :
      a \in SUBSET Positions(RootEntries),
      b \in SUBSET Positions(SubEntries),
      c \in SUBSET Positions(DeepEntries) }

CollectInit ==
  /\ \E r \in BOOLEAN :
       args = [r |-> r, d |-> SrcDir, sc |-> 1, pGiven |-> FALSE, p |-> << >>]
  /\ world \in CollectWorlds
  /\ dirs = WorldDirs(world)
  /\ calc = CalcOff
  /\ ProgramStart

\* GetImageFiles(pathFlag, recFlag, &files)
CollectApply ==
  /\ mainPc = "parse"
  /\ LET got == GetImageFiles(world.listing, args.d, args.r, files)
     IN /\ files' = got.result
        /\ reads' = got.reads
  /\ mainPc' = "collected"
  /\ UNCHANGED << flags, wg, logDone, dirs, exited, failed, sent, received >>
  /\ UNCHANGED << resizeVars, handleVars, envVars >>

CollectNext ==
  CollectApply

CollectSpec ==
  CollectInit /\ [][CollectNext]_vars

----------------------------------------------------------------------------
(* Claims.                                                                 *)

\* A failure that ends the process.
FatalFailure ==
  failed \cap { "config", "readdir", "open", "decode", "panic", "create" } # { }

\* A failure of one of the two stages that ends the process.
StageFailure ==
  failed \cap { "open", "decode", "create" } # { }

\* The number of os.Create attempts made for a source path.
WritesOf(src) ==
  Cardinality({ j \in 1 .. Len(creates) : creates[j].rec.Filename = src })

\* The number of records received for a source path.
ReceiptsOf(src) ==
  Cardinality({ j \in 1 .. Len(received) : received[j].Filename = src })

\* C1: in a run that completes without error the save stage makes as many
\* write attempts as the collector returned paths, one per path: every path
\* sent is received exactly once, none is lost and none is received twice.
\* The save stage never returns having made fewer or more attempts than
\* there are paths.
C1_WritesEqualPaths ==
  /\ hPc = "returned" => Len(creates) = Len(files)
  /\ mainPc = "done" =>
       /\ Len(creates) = Len(files)
       /\ Len(sent) = Len(files)
       /\ Len(received) = Len(files)
       /\ \A i \in 1 .. Len(files) :
            WritesOf(files[i]) = 1 /\ ReceiptsOf(files[i]) = 1

C1_Witness ==
  /\ mainPc = "done"
  /\ Len(files) = 3
  /\ Len(creates) = 3
  /\ \A i \in 1 .. 3 : WritesOf(files[i]) = 1

\* C2: every path entering the pipeline gets exactly one record and one
\* write attempt, and no output file is written twice: two different input
\* paths never target the same output file within one run.
C2_NoOutputWrittenTwice ==
  /\ \A i \in 1 .. Len(creates) : WritesOf(creates[i].rec.Filename) = 1
  /\ \A i, j \in 1 .. Len(creates) :
       creates[i].rec.Filename # creates[j].rec.Filename
         => creates[i].path # creates[j].path

\* The run is over with every record sent, received and written, both
\* stages returned through wg.Done, and wg.Wait returned.
PipelineDone ==
  /\ mainPc = "done"
  /\ rPc = "returned"
  /\ hPc = "returned"
  /\ wg = 0
  /\ Len(sent) = Len(files)
  /\ Len(received) = Len(files)
  /\ Len(creates) = Len(files)

\* C3: in every run in which no file operation fails fatally, under fair
\* scheduling, the pipeline does not deadlock: Resize completes its sends,
\* HandleResized its receives, both call wg.Done and wg.Wait returns; and
\* the producer is never blocked forever on a send.
C3_NoDeadlock ==
  /\ <>(FatalFailure \/ PipelineDone)
  /\ (rPc = "send") ~> (rPc # "send" \/ FatalFailure)

C3_Witness ==
  /\ PipelineDone
  /\ Len(files) = 3
  /\ ~FatalFailure

\* C4: when a stage fails (os.Open or the decoding in Resize, os.Create in
\* HandleResized), the other stage ends as well, whatever it was doing: the
\* process ends, and the run never reports success.
C4_FailureEndsBothStages ==
  /\ [](StageFailure => (mainPc # "done" /\ logDone = -1))
  /\ StageFailure ~> exited

C4_Witness ==
  /\ exited
  /\ "decode" \in failed
  /\ hPc = "recv"

\* C5: a decode error or an encode error aborts the run: it never reaches
\* the "Done" summary.
C5_FailFast ==
  ("decode" \in failed \/ "encode" \in failed) => (mainPc # "done" /\ logDone = -1)

\* The command line has no -d, or a scale of zero.
BadCommandLine ==
  args.d = << >> \/ args.sc = 0

\* C6: with a scale of 0 or without -d, main ends with an error before the
\* source directory is read, before either stage is started, and before any
\* file is opened or created or any directory is created.
C6_ConfigErrorBeforeWork ==
  BadCommandLine =>
    /\ reads = << >>
    /\ rPc = "idle"
    /\ hPc = "idle"
    /\ opened = << >>
    /\ creates = << >>
    /\ mkdirs = << >>
    /\ wg = 0
    /\ logDone = -1
    /\ mainPc \in { "parse", "fatal" }
    /\ mainPc = "fatal" => "config" \in failed

C6_Witness ==
  /\ args.sc = 0
  /\ args.d = SrcDir
  /\ exited
  /\ "config" \in failed
  /\ reads = << >>

\* C7: for a non-negative dimension and a non-zero scale, GetNewWidth and
\* GetNewHeight give original / (-scale), truncated, for a negative scale and
\* original + original / scale for a positive one; 800x600 and 100x100 give
\* 1200x900 and 150x150 for scale 2, 400x300 and 50x50 for scale -2.
C7_ScaleFormulas ==
  calc.pc = "out" =>
    /\ calc.sc < 0 =>
         /\ calc.nw = calc.w \div (-calc.sc)
         /\ calc.nh = calc.h \div (-calc.sc)
    /\ calc.sc > 0 =>
         /\ calc.nw = calc.w + (calc.w \div calc.sc)
         /\ calc.nh = calc.h + (calc.h \div calc.sc)
    /\ (calc.w = 800 /\ calc.h = 600 /\ calc.sc = 2) => (calc.nw = 1200 /\ calc.nh = 900)
    /\ (calc.w = 100 /\ calc.h = 100 /\ calc.sc = 2) => (calc.nw = 150 /\ calc.nh = 150)
    /\ (calc.w = 800 /\ calc.h = 600 /\ calc.sc = -2) => (calc.nw = 400 /\ calc.nh = 300)
    /\ (calc.w = 100 /\ calc.h = 100 /\ calc.sc = -2) => (calc.nw = 50 /\ calc.nh = 50)

C7_Witness ==
  /\ calc.pc = "out"
  /\ calc.w = 800
  /\ calc.h = 600
  /\ calc.sc = -2
  /\ calc.nw = 400
  /\ calc.nh = 300

\* C8: without -p the save stage's destination is the value of -d: the
\* copies are created in the source directory under the prefixed name, and
\* no source file is created over.
C8_DefaultDestinationIsSource ==
  (~args.pGiven /\ hPc # "idle") =>
    /\ hArgs.savedir = args.d
    /\ \A j \in 1 .. Len(creates) :
         /\ creates[j].path # creates[j].rec.Filename
         /\ Parent(creates[j].path) = args.d

\* The decimal numeral of n, digit by digit from the most significant.
Decimal(n) ==
  LET d == CHOOSE k \in 1 .. 10 : n < 10^k /\ (k = 1 \/ n >= 10^(k - 1))
  IN [k \in 1 .. d |-> Digits[((n \div 10^(d - k)) % 10) + 1]]

\* The final segment of a path: its longest suffix without a separator.
Basename(path) ==
  LET tails == { SubSeq(path, k, Len(path)) : k \in 1 .. Len(path) + 1 }
      plain == { t \in tails : \A i \in 1 .. Len(t) : t[i] # "/" }
  IN CHOOSE t \in plain : \A u \in plain : Len(u) <= Len(t)

\* <newWidth>x<newHeight>_<originalBasename>
PrefixedName(rec) ==
  Decimal(rec.Width) \o << "x" >> \o Decimal(rec.Height) \o << "_" >>
    \o Basename(rec.Filename)

\* The prefixed name inside a destination directory.
InDestination(savedir, rec) ==
  IF savedir = << >> THEN PrefixedName(rec)
  ELSE savedir \o << "/" >> \o PrefixedName(rec)

\* C9 as stated: whatever the destination, the file created for a record is
\* <newWidth>x<newHeight>_<originalBasename> inside the destination.
C9_PrefixedNameAlways ==
  \A j \in 1 .. Len(creates) :
    creates[j].path = InDestination(hArgs.savedir, creates[j].rec)

\* C9, amended: with a non-empty destination the file created for a record
\* is <newWidth>x<newHeight>_<originalBasename> inside the destination, the
\* width and height being those computed for the record's source image; with
\* an empty destination it is the source path itself.  s/p.jpg (800x600)
\* gives o/1200x900_p.jpg at scale 2, s/i.png (100x100) o/50x50_i.png at -2.
C9_PrefixedNameInDestination ==
  \A j \in 1 .. Len(creates) :
    LET c == creates[j]
        src == c.rec.Filename
    IN /\ hArgs.savedir # << >> => c.path = InDestination(hArgs.savedir, c.rec)
       /\ hArgs.savedir = << >> => c.path = src
       /\ (hArgs.savedir = OutDir /\ args.sc = 2
             /\ src = << "s", "/", "p", ".", "j", "p", "g" >>)
            => c.path = << "o", "/", "1", "2", "0", "0", "x", "9", "0", "0", "_",
                           "p", ".", "j", "p", "g" >>
       /\ (hArgs.savedir = OutDir /\ args.sc = -2
             /\ src = << "s", "/", "i", ".", "p", "n", "g" >>)
            => c.path = << "o", "/", "5", "0", "x", "5", "0", "_",
                           "i", ".", "p", "n", "g" >>

C9_Witness ==
  \E j \in 1 .. Len(creates) :
    /\ creates[j].ok
    /\ creates[j].path = << "o", "/", "1", "2", "0", "0", "x", "9", "0", "0", "_",
                            "p", ".", "j", "p", "g" >>
    /\ creates[j].rec.Filename = << "s", "/", "d", "/", "p", ".", "j", "p", "g" >>

\* C10: a destination directory that does not exist when the save stage
\* starts is created, with its missing parents, before the first output file
\* is created: no file is created while the destination is absent.
C10_DestinationCreatedBeforeWrite ==
  hArgs.savedir # << >> =>
    /\ hPc \in { "recv", "create", "encode" } => Exists(hArgs.savedir, dirs)
    /\ \A j \in 1 .. Len(creates) : creates[j].dirExisted

\* C11: main reports success only after both stages have ended: "Done.
\* Resized N img." is logged only when Resize has sent every record and
\* returned, HandleResized has created and encoded a file for every record
\* and returned, and N is the number of collected paths.
C11_DoneAfterBothStages ==
  (mainPc = "done" \/ logDone # -1) =>
    /\ rPc = "returned"
    /\ hPc = "returned"
    /\ Len(sent) = Len(files)
    /\ Len(received) = Len(files)
    /\ Len(creates) = Len(files)
    /\ Len(encodes) = Len(files)
    /\ \A j \in 1 .. Len(creates) : creates[j].ok
    /\ logDone = Len(files)

C11_Witness ==
  /\ mainPc = "done"
  /\ logDone = 3
  /\ Len(files) = 3
  /\ Len(encodes) = 3

\* The name ends with the suffix.
EndsWith(name, suffix) ==
  /\ Len(name) >= Len(suffix)
  /\ SubSeq(name, Len(name) - Len(suffix) + 1, Len(name)) = suffix

\* The name ends in .jpg, .jpeg or .png, in these very letters.
ImageName(name) ==
  \E suffix \in { ExtJpg, ExtJpeg, ExtPng } : EndsWith(name, suffix)

\* The image files directly in a directory of the tree, by path.
ImagesIn(listing, dir) ==
  { dir \o << "/" >> \o listing[dir][k].name :
      k \in { i \in 1 .. Len(listing[dir]) :
                ~listing[dir][i].isDir /\ ImageName(listing[dir][i].name) } }

\* The elements of a sequence.
Range(seq) ==
  { seq[i] : i \in 1 .. Len(seq) }

\* C12: without recursion GetImageFiles returns exactly the files directly
\* in the root whose extension is .jpg, .jpeg or .png (case-sensitive) and
\* reads no sub-directory; with recursion it returns exactly the matching
\* files at every depth; files of another extension and directories are
\* never in the result, and no file is in it twice.
C12_CollectsExactlyImages ==
  mainPc = "collected" =>
    LET scope == IF args.r THEN DOMAIN world.listing ELSE { args.d }
        expected == UNION { ImagesIn(world.listing, dir) : dir \in scope }
    IN /\ Range(files) = expected
       /\ Len(files) = Cardinality(expected)
       /\ Range(reads) = scope
       /\ Len(reads) = Cardinality(scope)

C12_Witness ==
  /\ mainPc = "collected"
  /\ args.r
  /\ DOMAIN world.listing = { SrcDir, SubDir, DeepDir }
  /\ Len(world.listing[SrcDir]) = 5
  /\ Len(world.listing[DeepDir]) = 2
  /\ files = << << "s", "/", "a", ".", "j", "p", "g" >>,
                << "s", "/", "b", ".", "j", "p", "e", "g" >>,
                << "s", "/", "d", "/", "c", ".", "p", "n", "g" >>,
                << "s", "/", "d", "/", "e", ".", "p", "n", "g", "/", "a", ".", "j", "p", "g" >> >>

\* C13: for a non-zero scale and a non-negative dimension d the new
\* dimension is non-negative; it is >= d for a positive scale and <= d for a
\* negative one.
C13_ScaleDirection ==
  calc.pc = "out" =>
    /\ calc.nw >= 0
    /\ calc.nh >= 0
    /\ calc.sc > 0 => (calc.nw >= calc.w /\ calc.nh >= calc.h)
    /\ calc.sc < 0 => (calc.nw <= calc.w /\ calc.nh <= calc.h)

C13_Witness ==
  /\ calc.pc = "out"
  /\ calc.sc = -3
  /\ calc.w = 7
  /\ calc.h = 12
  /\ calc.nw = 2
  /\ calc.nh = 4

\* C14: the save order is the resize order: the source filenames of the
\* files HandleResized creates are, element by element, the paths of the
\* collector's list, in every interleaving.
C14_SaveOrderIsListOrder ==
  /\ Len(creates) <= Len(files)
  /\ \A j \in 1 .. Len(creates) : creates[j].rec.Filename = files[j]
  /\ \A j \in 1 .. Len(received) : received[j].Filename = files[j]

C14_Witness ==
  /\ Len(files) = 3
  /\ Len(creates) = 3
  /\ \A j \in 1 .. 3 : creates[j].rec.Filename = files[j]
  /\ files[1] # files[2]

\* C15: width and height are computed by the same formula with the same
\* scale: applied to the same value GetNewWidth and GetNewHeight agree, and
\* for an original (w, h) with w, h > 0 the integer ratios newW / w and
\* newH / h are equal.
C15_AspectRatioKept ==
  calc.pc = "out" =>
    /\ calc.w = calc.h => calc.nw = calc.nh
    /\ (calc.w > 0 /\ calc.h > 0) => (calc.nw \div calc.w) = (calc.nh \div calc.h)

C15_Witness ==
  /\ calc.pc = "out"
  /\ calc.sc = 1
  /\ calc.w = 800
  /\ calc.h = 600
  /\ calc.nw \div calc.w = 2
  /\ calc.nh \div calc.h = 2

\* C16: every input file opened and every output file created is closed
\* within the loop iteration that opened it, on every exit path: a stage
\* holds at most one open file at any time, none when it starts the next
\* iteration, and none when it has ended, normally or through a failure.
C16_HandlesClosedPerIteration ==
  /\ Len(rHandles) <= 1
  /\ Len(hHandles) <= 1
  /\ rPc \in { "open", "ret", "returned", "fatal" } => rHandles = << >>
  /\ hPc \in { "recv", "ret", "returned", "fatal" } => hHandles = << >>

\* C17: a downscale whose magnitude exceeds the dimension gives a new
\* dimension of 0, and such a zero-sized target is reported for its file: it
\* is not sent, created and encoded like any other record.
C17_ZeroSizeReported ==
  /\ \A j \in 1 .. Len(sent) :
       LET size == world.size[sent[j].Filename]
       IN /\ -rArgs.scale > size[1] => sent[j].Width = 0
          /\ -rArgs.scale > size[2] => sent[j].Height = 0
  /\ \A j \in 1 .. Len(creates) :
       creates[j].rec.Width # 0 /\ creates[j].rec.Height # 0

\* C18: the consumer only receives: HandleResized has no send and no close
\* among its steps, and Resize no close; and the consumer knows the end of
\* the stream: it is at a receive only while the producer still has a record
\* to send, so once the producer has sent its last record the consumer
\* attempts no further receive.
C18_EndOfStream ==
  /\ hPc \in { "idle", "stat", "recv", "create", "encode", "ret", "returned", "fatal" }
  /\ rPc \in { "idle", "open", "decode", "send", "ret", "returned", "fatal" }
  /\ hPc = "recv" => Len(sent) < Len(files)
  /\ rPc \in { "ret", "returned" } => (Len(sent) = Len(files) /\ hPc # "recv")
  /\ Len(received) <= Len(files)

C18_Witness ==
  /\ Len(files) = 3
  /\ Len(sent) = 3
  /\ rPc = "returned"
  /\ hPc = "ret"
  /\ Len(creates) = 3

\* The number of files Resize has opened.
OpenedCount ==
  Cardinality({ j \in 1 .. Len(opened) : opened[j].ok })

\* C19: the channel has no buffer: the completed sends are the completed
\* receives, in number and in content, and the producer has opened (and so
\* decoded and resized) at most one file more than the consumer has
\* received; a producer at the send facing a consumer at the receive is not
\* suspended, nor is that consumer: the handoff can take place.
C19_Backpressure ==
  /\ sent = received
  /\ OpenedCount <= Len(received) + 1
  /\ (Running /\ rPc = "send" /\ hPc = "recv") => ENABLED Handoff
  /\ (rPc = "send") => OpenedCount = Len(received) + 1

C19_Witness ==
  /\ rPc = "send"
  /\ hPc = "encode"
  /\ Len(received) = 1
  /\ OpenedCount = 2
  /\ ~ENABLED Handoff

\* C20: every path main passes to Resize ends in .jpg, .jpeg or .png, so
\* Resize decodes every file it opens; the j-th record sent is the record of
\* the j-th path (its Filename, that path's extension, the image decoded
\* from that very file, never an earlier record nor the zero value), and
\* the j-th encoding writes the j-th image in the format it was decoded from.
C20_RecordIntegrity ==
  /\ \A i \in 1 .. Len(files) : ImageName(files[i])
  /\ (rPc = "send") => (rImg.Filename = files[rI] /\ rImg.Data.of = files[rI])
  /\ \A j \in 1 .. Len(sent) :
       /\ sent[j] # ZeroImage
       /\ sent[j].Filename = files[j]
       /\ sent[j].Ext \in { ExtJpg, ExtJpeg, ExtPng }
       /\ EndsWith(files[j], sent[j].Ext)
       /\ sent[j].Data.of = files[j]
       /\ \A k \in 1 .. (j - 1) : sent[k] # sent[j]
  /\ Len(encodes) <= Len(received)
  /\ \A j \in 1 .. Len(encodes) :
       /\ encodes[j].src = files[j]
       /\ encodes[j].fmt = encodes[j].dec
       /\ encodes[j].fmt = received[j].Data.dec

C20_Witness ==
  /\ Len(sent) = 3
  /\ Len(encodes) = 3
  /\ \A j \in 1 .. 3 : sent[j].Filename = files[j]
  /\ \E j \in 1 .. 3 : encodes[j].fmt = "jpeg" /\ encodes[j].dec = "jpeg"
  /\ \E j \in 1 .. 3 : encodes[j].fmt = "png" /\ encodes[j].dec = "png"

====
